---- MODULE Spec2Model ----
(***************************************************************************)
(* Model of the alignment and codec engine of AdaSeq:                      *)
(*   - uner NLPPreprocessor.encode_tokens / compress_token_mapping         *)
(*     (src/uner/preprocessors/nlp_preprocessor.py)                        *)
(*   - NamedEntityRecognitionDatasetReader._labels_to_spans                *)
(*     (src/uner/datasets/dataset_builders/dataset_reader.py)              *)
(* Python lists are sequences; Python indices are 0-based and are kept     *)
(* 0-based in every value the code stores (offsets, span bounds).          *)
(***************************************************************************)
EXTENDS Integers, Sequences, FiniteSets, TLC

VARIABLES
    \* ---- Subword Aligner (NLPPreprocessor) ----
    tokens,        \* data['tokens']
    has_mask,      \* 'mask' in data
    mask,          \* data['mask'] when supplied
    max_length,    \* self.max_length
    add_cls_sep,   \* self.add_cls_sep
    output,        \* the record returned by encode_tokens
    raised,        \* the exception encode_tokens left with, "none" if it returned
    apc,           \* "ready" before the call, "done" after it
    \* ---- Span/Label Codec (_labels_to_spans) ----
    labels,        \* the caller's list object; _labels_to_spans writes into it
    orig_labels,   \* the value of the list before the first call
    known,         \* the span set the labels were rendered from (when rendered)
    rendered,      \* TRUE when labels were drawn by rendering `known`
    results,       \* one record per completed call of _labels_to_spans
    \* ---- adaseq NLPPreprocessor.encode_tokens ----
    ada_tokens,          \* the tokens argument
    ada_max_length,      \* self.max_length
    add_special_tokens,  \* self.add_special_tokens
    return_offsets,      \* self.return_offsets
    ada_output,          \* the record returned by encode_tokens
    ada_pc               \* "ready" before the call, "done" after it

vars == <<tokens, has_mask, mask, max_length, add_cls_sep, output, raised, apc,
          labels, orig_labels, known, rendered, results,
          ada_tokens, ada_max_length, add_special_tokens, return_offsets,
          ada_output, ada_pc>>

alignerVars == <<tokens, has_mask, mask, max_length, add_cls_sep, output, raised, apc>>
codecVars == <<labels, orig_labels, known, rendered, results>>
adaseqVars == <<ada_tokens, ada_max_length, add_special_tokens, return_offsets,
                ada_output, ada_pc>>

----------------------------------------------------------------------------
\* Bounds of the input space
MaxTokens == 3
MaxMaxLength == 7
MaxLabels == 5
MaxCalls == 2

----------------------------------------------------------------------------
\* Generic helpers

Min(a, b) == IF a < b THEN a ELSE b
Max(a, b) == IF a > b THEN a ELSE b

\* Python [x] * n  (n <= 0 gives the empty list)
Repeat(x, n) == [k \in 1..n |-> x]

\* Python s[:k], negative k counts from the end
PySlicePrefix(s, k) ==
    IF k >= 0 THEN SubSeq(s, 1, Min(k, Len(s)))
    ELSE SubSeq(s, 1, Max(Len(s) + k, 0))

\* all sequences over S of length 0..n
SeqsUpTo(S, n) == UNION {[1..k -> S] : k \in 0..n}

----------------------------------------------------------------------------
\* The tokenizer collaborator: a fixed vocabulary with 0, 1 and 2 subwords
cls_token_id == 101
sep_token_id == 102
unk_token_id == 100

Vocab == {" ", "cat", "catnip"}

\* self.tokenizer.encode(token, add_special_tokens=False)
tokenizer_encode(token) ==
    CASE token = " " -> <<>>
      [] token = "cat" -> <<7>>
      [] token = "catnip" -> <<7, 8>>

----------------------------------------------------------------------------
\* mutant: only a (0, 0) entry at scan position 0 opens a [0, 0] span
RECURSIVE compress_loop_leading_only(_, _, _)
compress_loop_leading_only(original_token_mapping, i, acc) ==
    IF i >= Len(original_token_mapping) \/ ~acc.ok THEN acc
    ELSE LET token_start == original_token_mapping[i + 1][1]
             token_end == original_token_mapping[i + 1][2]
             tsm == acc.value
         IN  IF token_start = token_end /\ token_start = 0 /\ i = 0
             THEN compress_loop_leading_only(original_token_mapping, i + 1,
                                [ok |-> TRUE, value |-> Append(tsm, <<0, 0>>)])
             ELSE IF token_start = token_end
             THEN IF Len(tsm) = 0
                  THEN [ok |-> FALSE, value |-> tsm]
                  ELSE compress_loop_leading_only(original_token_mapping, i + 1,
                           [ok |-> TRUE,
                            value |-> [tsm EXCEPT ![Len(tsm)] = <<@[1], @[2] + 1>>]])
             ELSE compress_loop_leading_only(original_token_mapping, i + 1,
                                [ok |-> TRUE, value |-> Append(tsm, <<i, i + 1>>)])

\* mutant: a boundary entry opens the span of its token indices, not of its
\* scan position
RECURSIVE compress_loop_token_index(_, _, _)
compress_loop_token_index(original_token_mapping, i, acc) ==
    IF i >= Len(original_token_mapping) \/ ~acc.ok THEN acc
    ELSE LET token_start == original_token_mapping[i + 1][1]
             token_end == original_token_mapping[i + 1][2]
             tsm == acc.value
         IN  IF token_start = token_end /\ token_start = 0
             THEN compress_loop_token_index(original_token_mapping, i + 1,
                                [ok |-> TRUE, value |-> Append(tsm, <<0, 0>>)])
             ELSE IF token_start = token_end
             THEN IF Len(tsm) = 0
                  THEN [ok |-> FALSE, value |-> tsm]
                  ELSE compress_loop_token_index(original_token_mapping, i + 1,
                           [ok |-> TRUE,
                            value |-> [tsm EXCEPT ![Len(tsm)] = <<@[1], @[2] + 1>>]])
             ELSE compress_loop_token_index(original_token_mapping, i + 1,
                       [ok |-> TRUE, value |-> Append(tsm, <<token_start, token_end>>)])

\* NLPPreprocessor.compress_token_mapping: i is the 0-based scan position.
\* token_span_mapping[-1] on an empty list raises IndexError.
RECURSIVE compress_loop(_, _, _)
compress_loop(original_token_mapping, i, acc) ==
    IF i >= Len(original_token_mapping) \/ ~acc.ok THEN acc
    ELSE LET token_start == original_token_mapping[i + 1][1]
             token_end == original_token_mapping[i + 1][2]
             tsm == acc.value
         IN  IF token_start = token_end /\ token_start = 0
             THEN compress_loop(original_token_mapping, i + 1,
                                [ok |-> TRUE, value |-> Append(tsm, <<0, 0>>)])
             ELSE IF token_start = token_end
             THEN IF Len(tsm) = 0
                  THEN [ok |-> FALSE, value |-> tsm]
                  ELSE compress_loop(original_token_mapping, i + 1,
                           [ok |-> TRUE,
                            value |-> [tsm EXCEPT ![Len(tsm)] = <<@[1], @[2] + 1>>]])
             ELSE compress_loop(original_token_mapping, i + 1,
                                [ok |-> TRUE, value |-> Append(tsm, <<i, i + 1>>)])

compress_token_mapping(original_token_mapping) ==
    compress_loop(original_token_mapping, 0, [ok |-> TRUE, value |-> <<>>])

----------------------------------------------------------------------------
\* NLPPreprocessor.encode_tokens

\* mutant: a token without subwords is skipped (no [UNK] substitution)
RECURSIVE encode_loop_no_unk(_, _, _, _)
encode_loop_no_unk(toks, msk, offset, acc) ==
    IF offset >= Min(Len(toks), Len(msk)) THEN acc
    ELSE LET token == toks[offset + 1]
             token_mask == msk[offset + 1]
             subtoken_ids == tokenizer_encode(token)
         IN  IF Len(subtoken_ids) = 0
             THEN encode_loop_no_unk(toks, msk, offset + 1, acc)
             ELSE encode_loop_no_unk(toks, msk, offset + 1,
                [input_ids |-> acc.input_ids \o subtoken_ids,
                 offset_mapping |-> acc.offset_mapping
                                      \o <<<<offset, offset + 1>>>>
                                      \o Repeat(<<offset + 1, offset + 1>>,
                                                Len(subtoken_ids) - 1),
                 emission_mask |-> acc.emission_mask
                                      \o <<token_mask>>
                                      \o Repeat(FALSE, Len(subtoken_ids) - 1)])

\* the per-token expansion loop over zip(tokens, mask); offset is 0-based
RECURSIVE encode_loop(_, _, _, _)
encode_loop(toks, msk, offset, acc) ==
    IF offset >= Min(Len(toks), Len(msk)) THEN acc
    ELSE LET token == toks[offset + 1]
             token_mask == msk[offset + 1]
             encoded == tokenizer_encode(token)
             subtoken_ids == IF Len(encoded) = 0 THEN <<unk_token_id>> ELSE encoded
         IN  encode_loop(toks, msk, offset + 1,
                [input_ids |-> acc.input_ids \o subtoken_ids,
                 offset_mapping |-> acc.offset_mapping
                                      \o <<<<offset, offset + 1>>>>
                                      \o Repeat(<<offset + 1, offset + 1>>,
                                                Len(subtoken_ids) - 1),
                 emission_mask |-> acc.emission_mask
                                      \o <<token_mask>>
                                      \o Repeat(FALSE, Len(subtoken_ids) - 1)])

\* mutant: only one slot is reserved for the framing tokens
truncate_reserve_one(enc, maxlen) ==
    IF Len(enc.input_ids) > maxlen - 1
    THEN [input_ids |-> PySlicePrefix(enc.input_ids, maxlen - 1),
          offset_mapping |-> PySlicePrefix(enc.offset_mapping, maxlen - 1),
          emission_mask |-> PySlicePrefix(enc.emission_mask, maxlen - 1)]
    ELSE enc

\* if len(input_ids) > self.max_length - 2: cut the three lists
truncate(enc, maxlen) ==
    IF Len(enc.input_ids) > maxlen - 2
    THEN [input_ids |-> PySlicePrefix(enc.input_ids, maxlen - 2),
          offset_mapping |-> PySlicePrefix(enc.offset_mapping, maxlen - 2),
          emission_mask |-> PySlicePrefix(enc.emission_mask, maxlen - 2)]
    ELSE enc

\* mutant: the emission mask gets no entry for [SEP]
frame_no_sep_emission(enc, cls_sep) ==
    IF cls_sep
    THEN [input_ids |-> <<cls_token_id>> \o enc.input_ids \o <<sep_token_id>>,
          offset_mapping |-> <<<<0, 0>>>> \o enc.offset_mapping \o <<<<0, 0>>>>,
          emission_mask |-> <<FALSE>> \o enc.emission_mask]
    ELSE enc

\* if self.add_cls_sep: frame the three lists
frame(enc, cls_sep) ==
    IF cls_sep
    THEN [input_ids |-> <<cls_token_id>> \o enc.input_ids \o <<sep_token_id>>,
          offset_mapping |-> <<<<0, 0>>>> \o enc.offset_mapping \o <<<<0, 0>>>>,
          emission_mask |-> <<FALSE>> \o enc.emission_mask \o <<FALSE>>]
    ELSE enc

EmptyEnc == [input_ids |-> <<>>, offset_mapping |-> <<>>, emission_mask |-> <<>>]

\* data.get('mask', [True] * len(tokens))
get_mask(toks, hasm, msk) == IF hasm THEN msk ELSE Repeat(TRUE, Len(toks))

\* the lists as they stand after the expansion loop (line 55)
expanded(toks, hasm, msk) == encode_loop(toks, get_mask(toks, hasm, msk), 0, EmptyEnc)

encode_tokens(toks, hasm, msk, maxlen, cls_sep) ==
    LET enc == frame(truncate(expanded(toks, hasm, msk), maxlen), cls_sep)
        rev == compress_token_mapping(enc.offset_mapping)
    IN  [raised |-> IF rev.ok THEN "none" ELSE "IndexError",
         output |-> [tokens |-> toks,
                     input_ids |-> enc.input_ids,
                     attention_mask |-> Repeat(1, Len(enc.input_ids)),
                     emission_mask |-> enc.emission_mask,
                     offset_mapping |-> enc.offset_mapping,
                     reverse_offset_mapping |-> rev.value]]

NoOutput == [tokens |-> <<>>, input_ids |-> <<>>, attention_mask |-> <<>>,
             emission_mask |-> <<>>, offset_mapping |-> <<>>,
             reverse_offset_mapping |-> <<>>]

----------------------------------------------------------------------------
\* adaseq NLPPreprocessor.encode_tokens
\* (src/adaseq/data/preprocessors/nlp_preprocessor.py)

\* Python int(flag)
PyInt(flag) == IF flag THEN 1 ELSE 0

\* the loop over tokens with its break; k is the 0-based index of the next
\* token, maxlen the local max_length of line 104
RECURSIVE ada_loop(_, _, _, _)
ada_loop(toks, k, maxlen, st) ==
    IF k >= Len(toks) THEN st
    ELSE LET encoded == tokenizer_encode(toks[k + 1])
             wp_ids == IF Len(encoded) = 0 THEN <<unk_token_id>> ELSE encoded
             offsets1 == Append(st.offsets,
                                <<Len(st.input_ids),
                                  Len(st.input_ids) + Len(wp_ids) - 1>>)
             input_ids1 == st.input_ids \o wp_ids
         IN  IF Len(input_ids1) > maxlen
             THEN LET cut == PySlicePrefix(input_ids1, maxlen)
                  IN  [input_ids |-> cut,
                       offsets |-> [offsets1 EXCEPT ![Len(offsets1)] =
                                        <<@[1], Len(cut) - 1>>]]
             ELSE ada_loop(toks, k + 1, maxlen,
                           [input_ids |-> input_ids1, offsets |-> offsets1])

ada_encode_tokens(toks, maxlen_cfg, special, with_offsets) ==
    LET st0 == IF special
               THEN [input_ids |-> <<cls_token_id>>, offsets |-> <<<<0, 0>>>>]
               ELSE [input_ids |-> <<>>, offsets |-> <<>>]
        st1 == ada_loop(toks, 0, maxlen_cfg - PyInt(special), st0)
        st2 == IF special
               THEN [input_ids |-> Append(st1.input_ids, sep_token_id),
                     offsets |-> Append(st1.offsets,
                                        <<Len(st1.input_ids), Len(st1.input_ids)>>)]
               ELSE st1
    IN  [input_ids |-> st2.input_ids,
         attention_mask |-> Repeat(TRUE, Len(st2.input_ids)),
         has_special_tokens |-> special,
         has_offsets |-> with_offsets,
         mask |-> IF with_offsets THEN Repeat(TRUE, Len(st2.offsets)) ELSE <<>>,
         offsets |-> IF with_offsets THEN st2.offsets ELSE <<>>]

AdaNoOutput == [input_ids |-> <<>>, attention_mask |-> <<>>,
                has_special_tokens |-> FALSE, has_offsets |-> FALSE,
                mask |-> <<>>, offsets |-> <<>>]

AdaIdle ==
    /\ ada_tokens = <<>> /\ ada_max_length = 0 /\ add_special_tokens = FALSE
    /\ return_offsets = FALSE /\ ada_output = AdaNoOutput /\ ada_pc = "idle"

----------------------------------------------------------------------------
\* Aligner state machine

CodecIdle ==
    /\ labels = <<>> /\ orig_labels = <<>> /\ known = {} /\ rendered = FALSE
    /\ results = <<>>

InitAligner ==
    /\ tokens \in SeqsUpTo(Vocab, MaxTokens)
    /\ has_mask \in BOOLEAN
    /\ mask \in IF has_mask THEN SeqsUpTo(BOOLEAN, MaxTokens) ELSE {<<>>}
    /\ max_length \in 0..MaxMaxLength
    /\ add_cls_sep \in BOOLEAN
    /\ output = NoOutput
    /\ raised = "none"
    /\ apc = "ready"
    /\ CodecIdle
    /\ AdaIdle

EncodeTokens ==
    /\ apc = "ready"
    /\ LET r == encode_tokens(tokens, has_mask, mask, max_length, add_cls_sep)
       IN  /\ output' = (IF r.raised = "none" THEN r.output ELSE NoOutput)
           /\ raised' = r.raised
    /\ apc' = "done"
    /\ UNCHANGED <<tokens, has_mask, mask, max_length, add_cls_sep>>
    /\ UNCHANGED codecVars
    /\ UNCHANGED adaseqVars

NextAligner == EncodeTokens

SpecAligner == InitAligner /\ [][NextAligner]_vars

----------------------------------------------------------------------------
\* Span/Label Codec.  A tag is the Python string as a sequence of characters:
\* "B-PER" is <<"B", "-", "P", "E", "R">>, "O" is <<"O">>.

Types == {<<"P", "E", "R">>, <<"L", "O", "C">>}
Prefixes == {"B", "I", "E", "S"}

Tag(prefix, type) == <<prefix, "-">> \o type
OTag == <<"O">>
\* uner.preprocessors.constant.PAD_LABEL: a sentinel distinct from any real tag
PAD_LABEL == <<"X">>

TagsOver(types) == {OTag, PAD_LABEL} \cup {Tag(p, t) : p \in Prefixes, t \in types}
TagSet == TagsOver(Types)

\* Python s[k:] for k >= 0
PySliceFrom(s, k) == SubSeq(s, k + 1, Len(s))

\* lines 138-139: if labels[i][0] in 'IE' and not in_entity: 'B' + labels[i][1:]
repair(label, in_entity) ==
    IF label[1] \in {"I", "E"} /\ ~in_entity
    THEN <<"B">> \o PySliceFrom(label, 1)
    ELSE label

\* mutant: an I tag leaves the entity like O, E and S do
update_in_entity_I_leaves(label, in_entity) ==
    IF label[1] \in {"B"} THEN TRUE
    ELSE IF label[1] \in {"O", "E", "S", "I"} THEN FALSE
    ELSE in_entity

\* lines 159-162
update_in_entity(label, in_entity) ==
    IF label[1] \in {"B"} THEN TRUE
    ELSE IF label[1] \in {"O", "E", "S"} THEN FALSE
    ELSE in_entity

\* lines 141, 150: i + 1 < len(labels) and labels[i + 1][0] in 'IE'
next_continues(labs, i) == i + 1 < Len(labs) /\ labs[i + 2][1] \in {"I", "E"}

\* one iteration of the loop body for the 0-based index i
labels_step(st, i) ==
    LET labs == [st.labels EXCEPT ![i + 1] = repair(@, st.in_entity)]
        lab == labs[i + 1]
        single == [start |-> i, end |-> i + 1, type |-> PySliceFrom(lab, 2)]
        closed == [start |-> st.start, end |-> i + 1, type |-> PySliceFrom(lab, 2)]
        st1 == [st EXCEPT !.labels = labs]
        st2 == IF lab[1] \in {"B", "S"}
               THEN IF next_continues(labs, i)
                    THEN [st1 EXCEPT !.start = i]
                    ELSE [st1 EXCEPT !.spans = Append(@, single)]
               ELSE IF lab[1] \in {"I", "E"}
               THEN IF ~next_continues(labs, i)
                    THEN IF st.start >= 0
                         THEN [st1 EXCEPT !.spans = Append(@, closed), !.start = -1]
                         ELSE [st1 EXCEPT !.raised = TRUE]
                    ELSE st1
               ELSE st1
    IN  IF st2.raised THEN st2
        ELSE [st2 EXCEPT !.in_entity = update_in_entity(lab, @)]

RECURSIVE labels_loop(_, _)
labels_loop(st, i) ==
    IF i >= Len(st.labels) \/ st.raised THEN st
    ELSE labels_loop(labels_step(st, i), i + 1)

\* NamedEntityRecognitionDatasetReader._labels_to_spans; .labels is the
\* caller's list as the call leaves it, .raised the AssertionError
labels_to_spans(labs) ==
    labels_loop([labels |-> labs, spans |-> <<>>, in_entity |-> FALSE,
                 start |-> -1, raised |-> FALSE], 0)

----------------------------------------------------------------------------
\* Rendering a span set into BIO tags (the producer side of the round trip)

AllSpans(N) == {[start |-> a, end |-> b, type |-> t] :
                   a \in 0..(N - 1), b \in 1..N, t \in Types}

RECURSIVE SpanSetsFrom(_, _)
\* the sets of pairwise non-overlapping spans over N tokens starting at k or later
SpanSetsFrom(k, N) ==
    {{}} \cup UNION {{{sp} \cup R : R \in SpanSetsFrom(sp.end, N)} :
                        sp \in {s \in AllSpans(N) : s.start >= k /\ s.start < s.end}}

Render(S, N) ==
    [p \in 1..N |->
        IF \E s \in S : s.start = p - 1
        THEN Tag("B", (CHOOSE s \in S : s.start = p - 1).type)
        ELSE IF \E s \in S : s.start < p - 1 /\ p - 1 < s.end
        THEN Tag("I", (CHOOSE s \in S : s.start < p - 1 /\ p - 1 < s.end).type)
        ELSE OTag]

----------------------------------------------------------------------------
\* Codec state machine

AlignerIdle ==
    /\ tokens = <<>> /\ has_mask = FALSE /\ mask = <<>> /\ max_length = 0
    /\ add_cls_sep = FALSE /\ output = NoOutput /\ raised = "none" /\ apc = "idle"

\* the label sequences a caller passes: every sequence over one entity type up
\* to MaxLabels tags, every sequence over both types up to MaxLabels - 1 tags
LabelInputs ==
    SeqsUpTo(TagsOver({<<"P", "E", "R">>}), MaxLabels)
        \cup SeqsUpTo(TagSet, MaxLabels - 1)

InitCodec ==
    /\ \/ /\ labels \in LabelInputs
          /\ rendered = FALSE
          /\ known = {}
       \/ /\ rendered = TRUE
          /\ \E N \in 0..MaxLabels :
                /\ known \in SpanSetsFrom(0, N)
                /\ labels = Render(known, N)
    /\ orig_labels = labels
    /\ results = <<>>
    /\ AlignerIdle
    /\ AdaIdle

LabelsToSpans ==
    /\ Len(results) < MaxCalls
    /\ LET r == labels_to_spans(labels)
       IN  /\ labels' = r.labels
           /\ results' = Append(results,
                  [raised |-> r.raised,
                   spans |-> IF r.raised THEN <<>> ELSE r.spans])
    /\ UNCHANGED <<orig_labels, known, rendered>>
    /\ UNCHANGED alignerVars
    /\ UNCHANGED adaseqVars

NextCodec == LabelsToSpans

SpecCodec == InitCodec /\ [][NextCodec]_vars

----------------------------------------------------------------------------
\* Properties of the Subword Aligner (checked under SpecAligner)

\* the number of tokens the loop over zip(tokens, mask) visits
Visited == Min(Len(tokens), Len(get_mask(tokens, has_mask, mask)))

\* number of subword slots of the token at 0-based index j
SlotsOf(j) == Max(1, Len(tokenizer_encode(tokens[j + 1])))

RECURSIVE FirstPos(_)
\* 0-based position, before truncation and framing, of the first subword of token i
FirstPos(i) == IF i = 0 THEN 0 ELSE FirstPos(i - 1) + SlotsOf(i - 1)

\* the accumulated subwords before truncation and their count
AllSubwords == expanded(tokens, has_mask, mask)
Total == Len(AllSubwords.input_ids)

\* the returned lists without the [CLS] / [SEP] frame
Unframed(s) == IF add_cls_sep THEN SubSeq(s, 2, Len(s) - 1) ELSE s
KeptIds == Unframed(output.input_ids)
KeptOffsets == Unframed(output.offset_mapping)
KeptEmission == Unframed(output.emission_mask)

Returned == apc = "done" /\ raised = "none"

\* C2: the four per-subword lists returned by encode_tokens have one length
LengthInvariant ==
    Returned =>
        /\ Len(output.attention_mask) = Len(output.input_ids)
        /\ Len(output.offset_mapping) = Len(output.input_ids)
        /\ Len(output.emission_mask) = Len(output.input_ids)

\* a framed call that cut the subwords of a masked sequence in the middle
LengthInvariantWitness ==
    /\ Returned /\ add_cls_sep /\ has_mask
    /\ Len(KeptIds) < Total /\ Len(KeptIds) >= 2
    /\ Len(output.emission_mask) = Len(KeptIds) + 2

\* C3 as stated: with framing, a total of max_length - 2 subwords is kept whole
\* and a total of max_length - 1 or more is cut to the first max_length - 2
TruncationBoundaryAnyMaxLength ==
    (Returned /\ add_cls_sep) =>
        /\ (Total = max_length - 2 => KeptIds = AllSubwords.input_ids)
        /\ (Total >= max_length - 1 =>
                KeptIds = SubSeq(AllSubwords.input_ids, 1, max_length - 2))

\* C3 amended: the same boundary for every max_length of at least 2
TruncationBoundary ==
    (Returned /\ add_cls_sep /\ max_length >= 2) =>
        /\ (Total = max_length - 2 => KeptIds = AllSubwords.input_ids)
        /\ (Total >= max_length - 1 =>
                KeptIds = SubSeq(AllSubwords.input_ids, 1, max_length - 2))

\* a framed call one subword over the budget, cut to max_length - 2 subwords
TruncationBoundaryWitness ==
    /\ Returned /\ add_cls_sep /\ max_length >= 3
    /\ Total = max_length - 1
    /\ Len(KeptIds) = max_length - 2

\* C4: without framing the subwords are cut only beyond max_length, to max_length
UnframedBoundIsMaxLength ==
    (Returned /\ ~add_cls_sep) =>
        /\ (Total <= max_length => output.input_ids = AllSubwords.input_ids)
        /\ (Total > max_length =>
                /\ output.input_ids = SubSeq(AllSubwords.input_ids, 1, max_length)
                /\ Len(output.offset_mapping) = max_length
                /\ Len(output.emission_mask) = max_length)

\* C5: an explicit mask of another length than tokens ends in InvalidInput
\* with no output record
MaskShapeChecked ==
    (apc = "done" /\ has_mask /\ Len(mask) # Len(tokens)) =>
        (raised = "InvalidInput" /\ output = NoOutput)

\* number of tokens that kept at least one subword
KeptTokens == Cardinality({i \in 0..(Visited - 1) : FirstPos(i) < Len(KeptIds)})

\* C6 as stated: with framing the reverse map is one [0,0] for [CLS] and one
\* entry per kept token, nothing for [SEP]
NoEntryForSep ==
    (Returned /\ add_cls_sep) =>
        /\ Len(output.reverse_offset_mapping) = 1 + KeptTokens
        /\ output.reverse_offset_mapping[1] = <<0, 0>>

\* C6 amended: with framing the reverse map is one [0,0] for [CLS], one entry
\* of positive width per kept token, and one trailing [0,0] for [SEP]
SepHasOwnEntry ==
    (Returned /\ add_cls_sep) =>
        LET rev == output.reverse_offset_mapping
        IN  /\ Len(rev) = KeptTokens + 2
            /\ rev[1] = <<0, 0>>
            /\ rev[Len(rev)] = <<0, 0>>
            /\ \A k \in 2..(Len(rev) - 1) : rev[k][1] < rev[k][2]

\* a framed call that kept two tokens or more, one of them with two subwords
SepHasOwnEntryWitness ==
    /\ Returned /\ add_cls_sep /\ KeptTokens >= 2
    /\ Len(KeptIds) > KeptTokens
    /\ Len(output.reverse_offset_mapping) = KeptTokens + 2

\* C10: a visited token without subwords, placed below the truncation bound,
\* holds exactly one slot: unk_id, offset (i, i+1), emission mask[i]; the slot
\* after it starts the next token, and the expansion opens one token boundary
\* per visited token
EmptySubwordFallback ==
    Returned =>
        /\ \A i \in 0..(Visited - 1) :
              (tokenizer_encode(tokens[i + 1]) = <<>> /\ FirstPos(i) < max_length - 2) =>
                  LET p == FirstPos(i) + 1
                  IN  /\ p <= Len(KeptIds)
                      /\ KeptIds[p] = unk_token_id
                      /\ KeptOffsets[p] = <<i, i + 1>>
                      /\ KeptEmission[p] = get_mask(tokens, has_mask, mask)[i + 1]
                      /\ p + 1 <= Len(KeptIds) => KeptOffsets[p + 1] = <<i + 1, i + 2>>
        /\ Cardinality({k \in 1..Total : AllSubwords.offset_mapping[k][1]
                                            # AllSubwords.offset_mapping[k][2]}) = Visited

\* a call that kept an empty token between two others, its mask entry FALSE
EmptySubwordFallbackWitness ==
    /\ Returned /\ has_mask /\ Visited >= 3
    /\ tokens[2] = " " /\ mask[2] = FALSE
    /\ FirstPos(2) < Len(KeptIds)
    /\ KeptIds[FirstPos(1) + 1] = unk_token_id

----------------------------------------------------------------------------
\* Properties of the Span/Label Codec (checked under SpecCodec)

SpanSet(r) == {r.spans[k] : k \in 1..Len(r.spans)}

\* C1: decoding the BIO rendering of a set of non-overlapping spans returns
\* exactly that set
RoundTrip ==
    (rendered /\ Len(results) >= 1) =>
        (~results[1].raised /\ SpanSet(results[1]) = known)

\* a rendered set with two spans or more, one of them three tokens long, decoded
RoundTripWitness ==
    /\ rendered /\ Len(results) >= 1
    /\ Cardinality(known) >= 2
    /\ \E s \in known : s.end - s.start >= 3
    /\ \E s \in known, t \in known : s.end = t.start /\ s.type # t.type

\* C7: every returned span list is in strictly ascending start order
SpansAscending ==
    \A c \in 1..Len(results) :
        \A k \in 2..Len(results[c].spans) :
            results[c].spans[k].start > results[c].spans[k - 1].start

\* C8: no call on a sequence of pad, O and B/I/E/S tags raises the assertion
AssertionUnreachable ==
    \A c \in 1..Len(results) : ~results[c].raised

\* C9: a second call on the list passed to the first call returns what the
\* first call returned
SecondCallSame ==
    Len(results) >= 2 => results[2] = results[1]

----------------------------------------------------------------------------
\* Offset compression (checked under SpecAligner)

\* index in input_ids of the first kept subword: 1 behind [CLS], else 0
Shift == IF add_cls_sep THEN 1 ELSE 0

\* C12: for every token that kept a subword, the reverse map holds the
\* half-open range from the index in input_ids of its first subword to one past
\* its last kept subword, and the ranges of successive tokens are adjacent
CompressReconstructsRanges ==
    Returned =>
        LET rev == output.reverse_offset_mapping
        IN  \A i \in 0..(Visited - 1) :
                FirstPos(i) < Len(KeptIds) =>
                    LET s == FirstPos(i) + Shift
                        e == Min(FirstPos(i) + SlotsOf(i), Len(KeptIds)) + Shift
                        k == i + 1 + Shift
                    IN  /\ k <= Len(rev)
                        /\ rev[k] = <<s, e>>
                        /\ \A q \in s..(e - 1) :
                              output.input_ids[q + 1] =
                                  AllSubwords.input_ids[q - Shift + 1]
                        /\ (i > 0 => rev[k - 1][2] = s)

\* a framed call that kept a two-subword token whole and cut the two-subword
\* token after it to one subword
CompressReconstructsRangesWitness ==
    /\ Returned /\ add_cls_sep /\ Visited >= 2
    /\ tokens[1] = "catnip" /\ tokens[2] = "catnip"
    /\ Len(KeptIds) = 3
    /\ output.reverse_offset_mapping[2] = <<1, 3>>
    /\ output.reverse_offset_mapping[3] = <<3, 4>>

----------------------------------------------------------------------------
\* Coverage of tagged tokens (checked under SpecCodec)

HasPad(labs) == \E k \in 1..Len(labs) : labs[k] = PAD_LABEL

\* C13: after a call on a sequence of O and B/I/E/S tags (no pad sentinel),
\* every position whose tag is not O lies inside a returned span
NoTaggedTokenDropped ==
    (~HasPad(orig_labels) /\ Len(results) >= 1) =>
        /\ ~results[1].raised
        /\ \A p \in 1..Len(orig_labels) :
              orig_labels[p] # OTag =>
                  \E k \in 1..Len(results[1].spans) :
                      /\ results[1].spans[k].start <= p - 1
                      /\ p - 1 < results[1].spans[k].end

----------------------------------------------------------------------------
\* adaseq preprocessor state machine

InitAdaSeq ==
    /\ ada_tokens \in SeqsUpTo(Vocab, MaxTokens)
    /\ ada_max_length \in 0..MaxMaxLength
    /\ add_special_tokens \in BOOLEAN
    /\ return_offsets \in BOOLEAN
    /\ ada_output = AdaNoOutput
    /\ ada_pc = "ready"
    /\ AlignerIdle
    /\ CodecIdle

AdaEncodeTokens ==
    /\ ada_pc = "ready"
    /\ ada_output' = ada_encode_tokens(ada_tokens, ada_max_length,
                                       add_special_tokens, return_offsets)
    /\ ada_pc' = "done"
    /\ UNCHANGED <<ada_tokens, ada_max_length, add_special_tokens, return_offsets>>
    /\ UNCHANGED alignerVars
    /\ UNCHANGED codecVars

NextAdaSeq == AdaEncodeTokens

SpecAdaSeq == InitAdaSeq /\ [][NextAdaSeq]_vars

\* the sub-tokens of the token at 0-based index j
AdaPieces(j) ==
    LET encoded == tokenizer_encode(ada_tokens[j + 1])
    IN  IF Len(encoded) = 0 THEN <<unk_token_id>> ELSE encoded

\* C11: every entry (s, e) of 'offsets' is an inclusive range inside input_ids,
\* 0 <= s <= e < len(input_ids), that holds the [CLS] / [SEP] position or the
\* retained sub-tokens of its token, and each entry starts right after the one
\* before it
OffsetsAreInclusiveRanges ==
    (ada_pc = "done" /\ return_offsets) =>
        LET ids == ada_output.input_ids
            offs == ada_output.offsets
            sh == PyInt(add_special_tokens)
        IN  \A k \in 1..Len(offs) :
                LET s == offs[k][1]
                    e == offs[k][2]
                IN  /\ 0 <= s /\ s <= e /\ e < Len(ids)
                    /\ (k > 1 => s = offs[k - 1][2] + 1)
                    /\ IF add_special_tokens /\ k = 1
                       THEN ids[1] = cls_token_id /\ s = 0 /\ e = 0
                       ELSE IF add_special_tokens /\ k = Len(offs)
                       THEN ids[Len(ids)] = sep_token_id /\ s = Len(ids) - 1 /\ e = s
                       ELSE SubSeq(ids, s + 1, e + 1) =
                                SubSeq(AdaPieces(k - 1 - sh), 1, e - s + 1)

====
